---- MODULE Spec2Model ----
(***************************************************************************)
(* Pomodoro timer: the reducer embedded in the App component, the          *)
(* standalone reducer module, and the sanitisation helper clampMin.        *)
(*                                                                         *)
(* Numbers.  Every JavaScript number of the program is carried as TWICE    *)
(* its value (Num(25) = 50 stands for 25), so that the half-integers a     *)
(* form field can deliver ("2.5", "0.5") are exact.  NaN, which only       *)
(* Number(v) can produce, is the record field nan.                         *)
(***************************************************************************)
EXTENDS Integers, Sequences, FiniteSets, TLC

\* state      the reducer-held state object of the App component
\* act        the action dispatched last
\* fromStatus the status the timer had when that action was dispatched
\* nTicks     Ticks dispatched so far in the Start-then-Tick scenario
\* played     the sound effect called play() after the last dispatch
\* trail      what was dispatched since the last session-completing Tick:
\*            "ticks" (Ticks only), "ignored" (also actions that returned the
\*            state unchanged), "changed" (an action that changed the state,
\*            or no completion yet)
\* timer      the one-second interval of the tick effect exists
\* depStatus  the status the tick effect last ran for (its dependency)
\* libState   the state held by the standalone reducer run side by side
VARIABLES state, act, fromStatus, nTicks, played, trail, timer, depStatus,
          libState

vars == <<state, act, fromStatus, nTicks, played, trail, timer, depStatus,
          libState>>

----------------------------------------------------------------------------
(* Bounds *)

\* Tick stops completing work sessions once this many are completed (Spec).
MaxSessions == 1

\* The same cap for the Start-then-Tick scenario (SpecRun).
RunSessions == 5

\* The cap for the runs under fair ticking (SpecLive).
LiveSessions == 3

----------------------------------------------------------------------------
(* Number representation *)

Num(n) == 2 * n

Max(a, b) == IF a >= b THEN a ELSE b

\* x * y on doubled values
Mul(x, y) == (x * y) \div 2

\* a % b of JavaScript for a >= 0, b > 0 (both doubled)
Rem(a, b) == a % b

IsInteger(x) == x % 2 = 0

NaN == [nan |-> TRUE, val |-> 0]

Finite(x) == [nan |-> FALSE, val |-> x]

\* Raw field values: strings as FormData.get returns them; "null" stands for
\* the null that FormData.get returns for a missing field.
WideRawValues == {"abc", "", "null", "0", "-5", "0.5", "1", "2.5", "10"}

\* Number(v): ToNumber of ECMAScript on the raw values above and on "1.5".
Number(v) ==
  CASE v = "abc"  -> NaN
    [] v = ""     -> Finite(0)
    [] v = "null" -> Finite(0)
    [] v = "0"    -> Finite(0)
    [] v = "-5"   -> Finite(Num(-5))
    [] v = "0.5"  -> Finite(1)
    [] v = "1"    -> Finite(Num(1))
    [] v = "1.5"  -> Finite(3)
    [] v = "2.5"  -> Finite(5)
    [] v = "10"   -> Finite(Num(10))

\* n || d : d when n is falsy (NaN or 0), n otherwise
OrElse(n, d) == IF n.nan \/ n.val = 0 THEN d ELSE n.val

----------------------------------------------------------------------------
(* src/utils/time.js *)

clampMin(v) == Max(Num(1), OrElse(Number(v), Num(1)))

----------------------------------------------------------------------------
(* The App component's reducer *)

Modes == {"work", "shortBreak", "longBreak"}

modeLabels ==
  [work |-> "Work", shortBreak |-> "Short Break", longBreak |-> "Long Break"]

secondsForMode(mode, config) ==
  IF mode = "work" THEN Mul(config.workMin, Num(60))
  ELSE IF mode = "shortBreak" THEN Mul(config.shortMin, Num(60))
  ELSE Mul(config.longMin, Num(60))

clampMinApp(v) == Max(Num(1), OrElse(Number(v), Num(1)))

initialState ==
  [mode |-> "work",
   status |-> "idle",
   config |-> [workMin |-> Num(25), shortMin |-> Num(5),
               longMin |-> Num(15), longEvery |-> Num(4)],
   secondsLeft |-> Mul(Num(25), Num(60)),
   workSessionsCompleted |-> Num(0),
   announce |-> "",
   soundEnabled |-> TRUE]

\* (variant) longEvery falling back to 1 like the minute fields
sanitizeEveryLikeMinutes(payload) ==
  [workMin |-> clampMinApp(payload.workMin),
   shortMin |-> clampMinApp(payload.shortMin),
   longMin |-> clampMinApp(payload.longMin),
   longEvery |-> clampMinApp(payload.longEvery)]

\* APPLY_CONFIG: the sanitised configuration
sanitize(payload) ==
  [workMin |-> clampMinApp(payload.workMin),
   shortMin |-> clampMinApp(payload.shortMin),
   longMin |-> clampMinApp(payload.longMin),
   longEvery |-> Max(Num(1), OrElse(Number(payload.longEvery), Num(4)))]

\* (variant) the long-break test made on the count before the increment
tickNextModeStale(s, workCount) ==
  IF s.mode = "work"
  THEN IF Rem(s.workSessionsCompleted, s.config.longEvery) = 0
       THEN "longBreak" ELSE "shortBreak"
  ELSE "work"

\* TICK: the mode that follows a completed session
tickNextMode(s, workCount) ==
  IF s.mode = "work"
  THEN IF Rem(workCount, s.config.longEvery) = 0 THEN "longBreak" ELSE "shortBreak"
  ELSE "work"

\* (variant) every completed session counted, breaks included
tickWorkCountAlways(s) == s.workSessionsCompleted + Num(1)

tickWorkCount(s) ==
  IF s.mode = "work" THEN s.workSessionsCompleted + Num(1)
  ELSE s.workSessionsCompleted

\* (variant) a guard that lets a paused timer tick
\* (variant) a Tick that counts down whatever the status
tickGuardAlways(s) == TRUE

tickGuardNotIdle(s) == s.status # "idle"

tickGuard(s) == s.status = "running"

\* (variant) completion one Tick late: the test is next >= 0
reduceTickLate(s) ==
  IF ~tickGuard(s) THEN s
  ELSE LET next == s.secondsLeft - Num(1) IN
    IF next >= 0 THEN [s EXCEPT !.secondsLeft = next]
    ELSE LET workCount == tickWorkCount(s)
             nextMode == tickNextMode(s, workCount)
         IN [s EXCEPT !.mode = nextMode,
                      !.workSessionsCompleted = workCount,
                      !.secondsLeft = secondsForMode(nextMode, s.config),
                      !.announce = "Session complete. Next: " \o modeLabels[nextMode]]

\* (variant) a Tick that stops at one second instead of completing
reduceTickNoRollover(s) ==
  IF ~tickGuard(s) THEN s
  ELSE LET next == s.secondsLeft - Num(1) IN
    IF next > 0 THEN [s EXCEPT !.secondsLeft = next] ELSE s

reduceTick(s) ==
  IF ~tickGuard(s) THEN s
  ELSE LET next == s.secondsLeft - Num(1) IN
    IF next > 0 THEN [s EXCEPT !.secondsLeft = next]
    ELSE LET workCount == tickWorkCount(s)
             nextMode == tickNextMode(s, workCount)
         IN [s EXCEPT !.mode = nextMode,
                      !.workSessionsCompleted = workCount,
                      !.secondsLeft = secondsForMode(nextMode, s.config),
                      !.announce = "Session complete. Next: " \o modeLabels[nextMode]]

\* (variant) Start accepted from Idle only
reduceStartFromIdleOnly(s) ==
  IF s.status # "idle" THEN s
  ELSE [s EXCEPT !.status = "running", !.announce = ""]

reduceStart(s) ==
  IF s.status = "running" THEN s
  ELSE [s EXCEPT !.status = "running", !.announce = ""]

reducePause(s) ==
  IF s.status # "running" THEN s
  ELSE [s EXCEPT !.status = "paused", !.announce = ""]

\* (variant) the announcement cleared before the status test
reduceResumeClears(s) ==
  IF s.status # "paused" THEN [s EXCEPT !.announce = ""]
  ELSE [s EXCEPT !.status = "running", !.announce = ""]

reduceResume(s) ==
  IF s.status # "paused" THEN s
  ELSE [s EXCEPT !.status = "running", !.announce = ""]

\* (variant) a reset that also clears the session counter
reduceResetSessionClearsCount(s) ==
  [s EXCEPT !.status = "idle",
            !.secondsLeft = secondsForMode(s.mode, s.config),
            !.workSessionsCompleted = Num(0),
            !.announce = "Session reset"]

\* (variant) a reset that keeps the time left
reduceResetSessionKeepsTime(s) ==
  [s EXCEPT !.status = "idle", !.announce = "Session reset"]

reduceResetSession(s) ==
  [s EXCEPT !.status = "idle",
            !.secondsLeft = secondsForMode(s.mode, s.config),
            !.announce = "Session reset"]

\* (variant) a mode change that shows the length of the mode being left
reduceSetModeStale(s, mode) ==
  [s EXCEPT !.mode = mode,
            !.status = "idle",
            !.secondsLeft = secondsForMode(s.mode, s.config),
            !.announce = "Session: " \o modeLabels[mode]]

\* (variant) a mode change that leaves a running timer running
reduceSetModeKeepsStatus(s, mode) ==
  [s EXCEPT !.mode = mode,
            !.secondsLeft = secondsForMode(mode, s.config),
            !.announce = "Session: " \o modeLabels[mode]]

reduceSetMode(s, mode) ==
  [s EXCEPT !.mode = mode,
            !.status = "idle",
            !.secondsLeft = secondsForMode(mode, s.config),
            !.announce = "Session: " \o modeLabels[mode]]

\* (variant) a sound button that leaves the announcement in place
reduceToggleSoundKeepsAnnounce(s) ==
  [s EXCEPT !.soundEnabled = ~s.soundEnabled]

\* (variant) a sound button that only switches off
reduceToggleSoundOff(s) ==
  [s EXCEPT !.soundEnabled = FALSE, !.announce = ""]

reduceToggleSound(s) ==
  [s EXCEPT !.soundEnabled = ~s.soundEnabled, !.announce = ""]

\* (variant) settings applied without stopping the timer
reduceApplyConfigKeepsStatus(s, payload) ==
  LET cfg == sanitize(payload) IN
  [s EXCEPT !.config = cfg,
            !.secondsLeft = secondsForMode(s.mode, cfg),
            !.announce = "Settings applied"]

\* (variant) the time left taken from the config being replaced
reduceApplyConfigStale(s, payload) ==
  LET cfg == sanitize(payload) IN
  [s EXCEPT !.config = cfg,
            !.status = "idle",
            !.secondsLeft = secondsForMode(s.mode, s.config),
            !.announce = "Settings applied"]

\* (variant) new settings that keep the time left of the old session
reduceApplyConfigKeepsTime(s, payload) ==
  LET cfg == sanitize(payload) IN
  [s EXCEPT !.config = cfg,
            !.status = "idle",
            !.announce = "Settings applied"]

reduceApplyConfig(s, payload) ==
  LET cfg == sanitize(payload) IN
  [s EXCEPT !.config = cfg,
            !.status = "idle",
            !.secondsLeft = secondsForMode(s.mode, cfg),
            !.announce = "Settings applied"]

reducer(s, action) ==
  CASE action.type = "START"         -> reduceStart(s)
    [] action.type = "PAUSE"         -> reducePause(s)
    [] action.type = "RESUME"        -> reduceResume(s)
    [] action.type = "RESET_SESSION" -> reduceResetSession(s)
    [] action.type = "SET_MODE"      -> reduceSetMode(s, action.payload)
    [] action.type = "TOGGLE_SOUND"  -> reduceToggleSound(s)
    [] action.type = "APPLY_CONFIG"  -> reduceApplyConfig(s, action.payload)
    [] action.type = "TICK"          -> reduceTick(s)
    [] OTHER                         -> s

----------------------------------------------------------------------------
(* The standalone reducer module; its state has no soundEnabled field *)

modes ==
  [work |-> "Work", shortBreak |-> "Short Break", longBreak |-> "Long Break"]

secondsForModeLib(mode, config) ==
  IF mode = "work" THEN Mul(config.workMin, Num(60))
  ELSE IF mode = "shortBreak" THEN Mul(config.shortMin, Num(60))
  ELSE Mul(config.longMin, Num(60))

\* (variant) a rotation without long breaks
nextModeNeverLong(currentMode, nextWorkCount, config) ==
  IF currentMode = "work" THEN "shortBreak" ELSE "work"

nextMode(currentMode, nextWorkCount, config) ==
  IF currentMode = "work"
  THEN IF Rem(nextWorkCount, config.longEvery) = 0 THEN "longBreak" ELSE "shortBreak"
  ELSE "work"

initialStateLib ==
  [mode |-> "work",
   status |-> "idle",
   config |-> [workMin |-> Num(25), shortMin |-> Num(5),
               longMin |-> Num(15), longEvery |-> Num(4)],
   secondsLeft |-> Mul(Num(25), Num(60)),
   workSessionsCompleted |-> Num(0),
   announce |-> ""]

reducerLib(s, action) ==
  CASE action.type = "START" ->
         IF s.status = "running" THEN s
         ELSE [s EXCEPT !.status = "running", !.announce = ""]
    [] action.type = "PAUSE" ->
         IF s.status # "running" THEN s
         ELSE [s EXCEPT !.status = "paused", !.announce = ""]
    [] action.type = "RESUME" ->
         IF s.status # "paused" THEN s
         ELSE [s EXCEPT !.status = "running", !.announce = ""]
    [] action.type = "RESET_SESSION" ->
         [s EXCEPT !.status = "idle",
                   !.secondsLeft = secondsForModeLib(s.mode, s.config),
                   !.announce = "Session reset"]
    [] action.type = "TICK" ->
         IF s.status # "running" THEN s
         ELSE LET next == s.secondsLeft - Num(1) IN
           IF next > 0 THEN [s EXCEPT !.secondsLeft = next]
           ELSE LET nextWorkCount ==
                      IF s.mode = "work" THEN s.workSessionsCompleted + Num(1)
                      ELSE s.workSessionsCompleted
                    mode2 == nextMode(s.mode, nextWorkCount, s.config)
                IN [s EXCEPT !.mode = mode2,
                             !.workSessionsCompleted = nextWorkCount,
                             !.secondsLeft = secondsForModeLib(mode2, s.config),
                             !.announce = "Session complete. Next: " \o modes[mode2]]
    [] action.type = "APPLY_CONFIG" ->
         LET config == [workMin |-> clampMin(action.payload.workMin),
                        shortMin |-> clampMin(action.payload.shortMin),
                        longMin |-> clampMin(action.payload.longMin),
                        longEvery |-> Max(Num(1), OrElse(Number(action.payload.longEvery), Num(4)))]
         IN [s EXCEPT !.config = config,
                      !.secondsLeft = secondsForModeLib(s.mode, config),
                      !.status = "idle",
                      !.announce = "Settings applied"]
    [] OTHER -> s

\* The App state as the standalone reducer sees it
LibView(s) ==
  [mode |-> s.mode, status |-> s.status, config |-> s.config,
   secondsLeft |-> s.secondsLeft,
   workSessionsCompleted |-> s.workSessionsCompleted,
   announce |-> s.announce]

----------------------------------------------------------------------------
(* Actions dispatched to the reducer *)

StartAction == [type |-> "START"]
PauseAction == [type |-> "PAUSE"]
ResumeAction == [type |-> "RESUME"]
ResetSessionAction == [type |-> "RESET_SESSION"]
ToggleSoundAction == [type |-> "TOGGLE_SOUND"]
TickAction == [type |-> "TICK"]
SetModeAction(m) == [type |-> "SET_MODE", payload |-> m]
ApplyConfigAction(p) == [type |-> "APPLY_CONFIG", payload |-> p]

\* The payloads submitted in Spec: three payloads in which every raw value
\* (non-numeric, negative, fractional) occurs once in every field, and one
\* that gives whole minutes in every field.
Payloads ==
  {[workMin |-> "abc", shortMin |-> "-5",  longMin |-> "1.5", longEvery |-> "-5"],
   [workMin |-> "1.5", shortMin |-> "1.5", longMin |-> "abc", longEvery |-> "abc"],
   [workMin |-> "-5",  shortMin |-> "abc", longMin |-> "-5",  longEvery |-> "1.5"],
   [workMin |-> "1",   shortMin |-> "1",   longMin |-> "-5",  longEvery |-> "10"]}

WidePayloads ==
  [workMin : WideRawValues, shortMin : WideRawValues,
   longMin : WideRawValues, longEvery : WideRawValues]

\* String.prototype.startsWith
startsWith(str, prefix) ==
  Len(str) >= Len(prefix) /\ SubSeq(str, 1, Len(prefix)) = prefix

\* The sound effect runs after a render in which announce or soundEnabled
\* differs from the render before.
soundEffectRuns(old, new) ==
  <<new.announce, new.soundEnabled>> # <<old.announce, old.soundEnabled>>

\* The body of the sound effect reaches a.play()
soundEffectPlays(s) ==
  startsWith(s.announce, "Session complete") /\ s.soundEnabled

\* The Tick reaches the "complete current session" branch
tickCompletes(s) == s.status = "running" /\ s.secondsLeft - Num(1) <= 0

nextTrail(s, action) ==
  IF action.type = "TICK"
  THEN IF tickCompletes(s) THEN "ticks" ELSE trail
  ELSE IF reducer(s, action) = s
       THEN IF trail = "ticks" THEN "ignored" ELSE trail
       ELSE "changed"

\* useReducer(reducer, initialState); act records the last dispatched action
Init ==
  /\ state = initialState
  /\ act = [type |-> "INIT"]
  /\ fromStatus = "idle"
  /\ nTicks = 0
  /\ played = FALSE
  /\ trail = "changed"
  /\ timer = FALSE
  /\ depStatus = "idle"
  /\ libState = initialStateLib

\* dispatch(action) and the render that follows: the whole state is replaced
\* by reducer(state, action), then the sound effect runs if its dependencies
\* changed
\* act records the action last dispatched; of SET_MODE its type only, the
\* mode it carried being state.mode afterwards
Render(action) ==
  /\ state' = reducer(state, action)
  /\ act' = IF action.type = "SET_MODE" THEN [type |-> "SET_MODE"] ELSE action
  /\ fromStatus' = state.status
  /\ played' = (soundEffectRuns(state, state') /\ soundEffectPlays(state'))
  /\ trail' = nextTrail(state, action)

Dispatch(action) ==
  /\ Render(action)
  /\ UNCHANGED <<nTicks, timer, depStatus, libState>>

Start == Dispatch(StartAction)
Pause == Dispatch(PauseAction)
Resume == Dispatch(ResumeAction)
ResetSession == Dispatch(ResetSessionAction)
SetMode == \E m \in Modes : Dispatch(SetModeAction(m))
ToggleSound == Dispatch(ToggleSoundAction)
ApplyConfig == \E p \in Payloads : Dispatch(ApplyConfigAction(p))

\* A Tick that would complete a work session is delivered only below the cap.
CompletesWork(s) ==
  s.status = "running" /\ s.mode = "work" /\ s.secondsLeft - Num(1) <= 0

Tick ==
  /\ CompletesWork(state) => state.workSessionsCompleted < Num(MaxSessions)
  /\ Dispatch(TickAction)

Next ==
  \/ Start
  \/ Pause
  \/ Resume
  \/ ResetSession
  \/ SetMode
  \/ ToggleSound
  \/ ApplyConfig
  \/ Tick

Spec == Init /\ [][Next]_vars

----------------------------------------------------------------------------
(* The scenario of section 8: Start once, then nothing but Ticks *)

RunStart ==
  /\ act.type = "INIT"
  /\ Render(StartAction)
  /\ UNCHANGED <<nTicks, timer, depStatus, libState>>

RunTick ==
  /\ act.type # "INIT"
  /\ state.workSessionsCompleted < Num(RunSessions)
  /\ Render(TickAction)
  /\ nTicks' = nTicks + 1
  /\ UNCHANGED <<timer, depStatus, libState>>

NextRun ==
  \/ RunStart
  \/ RunTick

SpecRun == Init /\ [][NextRun]_vars

----------------------------------------------------------------------------
(* Sanitisation as a function of the payload: the settings form submitted   *)
(* once, to the initial state, with any payload of the wide raw set         *)

SubmitSettings ==
  /\ act.type = "INIT"
  /\ \E p \in WidePayloads : Dispatch(ApplyConfigAction(p))

NextSanitize == SubmitSettings

SpecSanitize == Init /\ [][NextSanitize]_vars

----------------------------------------------------------------------------
(* The ticking driver (SpecDriver): the reducer composed with the effect    *)
(* that owns the one-second interval.  timer says whether an interval is    *)
(* set; depStatus is the status the effect last ran for.  A dispatch        *)
(* renders; the effect runs some time after a render whose status differs   *)
(* from depStatus, and until then the interval of the earlier render may    *)
(* still fire.                                                              *)

\* the effect body: an interval is set iff the rendered status is running
intervalSet(status) == status = "running"

\* cleanup of the previous run (clearInterval), then the body
TickEffect ==
  /\ depStatus # state.status
  /\ timer' = intervalSet(state.status)
  /\ depStatus' = state.status
  /\ UNCHANGED <<state, act, fromStatus, nTicks, played, trail, libState>>

\* the interval callback: dispatch({type: "TICK"})
IntervalTick ==
  /\ timer
  /\ CompletesWork(state) => state.workSessionsCompleted < Num(MaxSessions)
  /\ Dispatch(TickAction)

NextDriver ==
  \/ Start
  \/ Pause
  \/ Resume
  \/ ResetSession
  \/ SetMode
  \/ ToggleSound
  \/ ApplyConfig
  \/ TickEffect
  \/ IntervalTick

SpecDriver == Init /\ [][NextDriver]_vars

----------------------------------------------------------------------------
(* The two reducers side by side (SpecPair): every action handled by both   *)
(* is applied to state by the App's reducer and to libState by the          *)
(* standalone reducer.                                                      *)

Both(action) ==
  /\ Render(action)
  /\ libState' = reducerLib(libState, action)
  /\ UNCHANGED <<nTicks, timer, depStatus>>

BothStart == Both(StartAction)
BothPause == Both(PauseAction)
BothResume == Both(ResumeAction)
BothResetSession == Both(ResetSessionAction)
BothApplyConfig == \E p \in Payloads : Both(ApplyConfigAction(p))
BothTick ==
  /\ CompletesWork(state) => state.workSessionsCompleted < Num(MaxSessions)
  /\ Both(TickAction)

NextPair ==
  \/ BothStart
  \/ BothPause
  \/ BothResume
  \/ BothResetSession
  \/ BothApplyConfig
  \/ BothTick

SpecPair == Init /\ [][NextPair]_vars

----------------------------------------------------------------------------
(* Fair ticking (SpecLive): settings and a mode are chosen while the timer  *)
(* is Idle, Start sets the interval, and from then on the only action is    *)
(* the interval's Tick, which keeps being delivered.                        *)

LiveApplyConfig ==
  /\ ~timer
  /\ act.type = "INIT"
  /\ \E p \in Payloads : Dispatch(ApplyConfigAction(p))

LiveSetMode ==
  /\ ~timer
  /\ act.type \in {"INIT", "APPLY_CONFIG"}
  /\ \E m \in Modes : Dispatch(SetModeAction(m))

LiveStart ==
  /\ ~timer
  /\ Render(StartAction)
  /\ timer' = intervalSet(state'.status)
  /\ depStatus' = state'.status
  /\ UNCHANGED <<nTicks, libState>>

LiveTick ==
  /\ timer
  /\ CompletesWork(state) => state.workSessionsCompleted < Num(LiveSessions)
  /\ Dispatch(TickAction)

NextLive ==
  \/ LiveApplyConfig
  \/ LiveSetMode
  \/ LiveStart
  \/ LiveTick

SpecLive == Init /\ [][NextLive]_vars /\ WF_vars(LiveTick)

----------------------------------------------------------------------------
(* Vocabulary of the specification (spec.md 4.1), on doubled values *)

Duration(m, c) ==
  CASE m = "work"       -> 60 * c.workMin
    [] m = "shortBreak" -> 60 * c.shortMin
    [] m = "longBreak"  -> 60 * c.longMin

Label(m) ==
  CASE m = "work"       -> "Work"
    [] m = "shortBreak" -> "Short Break"
    [] m = "longBreak"  -> "Long Break"

NotRunning == {"idle", "paused"}

----------------------------------------------------------------------------
(* C1..C3, C10: single reducer steps, from every reachable state *)

\* C1: in every state whose status is Idle or Paused, Tick returns the state
\* unchanged in every field, in the App reducer and in the standalone one.
TickNoOpWhenNotRunning ==
  state.status \in NotRunning =>
    /\ reducer(state, TickAction) = state
    /\ reducerLib(LibView(state), TickAction) = LibView(state)

\* a Tick was delivered to a timer paused in mid-countdown
TickDeliveredWhilePaused ==
  /\ act.type = "TICK"
  /\ fromStatus = "paused"
  /\ state.status = "paused"
  /\ state.secondsLeft < Duration(state.mode, state.config)

\* C2: Start when Running, Pause when Idle or Paused, Resume when Idle or
\* Running each return the state unchanged in every field (the announcement
\* included), in both reducers.
OutOfPreconditionIgnored ==
  /\ state.status = "running" =>
       /\ reducer(state, StartAction) = state
       /\ reducerLib(LibView(state), StartAction) = LibView(state)
  /\ state.status \in {"idle", "paused"} =>
       /\ reducer(state, PauseAction) = state
       /\ reducerLib(LibView(state), PauseAction) = LibView(state)
  /\ state.status \in {"idle", "running"} =>
       /\ reducer(state, ResumeAction) = state
       /\ reducerLib(LibView(state), ResumeAction) = LibView(state)

\* Resume was dispatched to a Running timer that shows an announcement
ResumeWhileRunningAnnounced ==
  /\ act.type = "RESUME"
  /\ fromStatus = "running"
  /\ state.status = "running"
  /\ state.announce = "Session complete. Next: Short Break"

\* the state the claim C3 expects after the completing Tick
CompletedFrom(s) ==
  LET count == IF s.mode = "work" THEN s.workSessionsCompleted + Num(1)
               ELSE s.workSessionsCompleted
      new == IF s.mode = "work"
             THEN IF Rem(count, s.config.longEvery) = 0 THEN "longBreak"
                  ELSE "shortBreak"
             ELSE "work"
  IN [s EXCEPT !.mode = new,
               !.workSessionsCompleted = count,
               !.secondsLeft = Duration(new, s.config),
               !.announce = "Session complete. Next: " \o Label(new)]

\* C3: a Tick on a Running state with secondsLeft = 1 completes the session in
\* that step: the count grows by one iff the mode was Work, the new mode
\* follows the rollover rule, secondsLeft is the new mode's duration, the
\* announcement names the new mode, status and config stay.
TickAtOneCompletes ==
  (state.status = "running" /\ state.secondsLeft = Num(1)) =>
    /\ reducer(state, TickAction) = CompletedFrom(state)
    /\ reducer(state, TickAction).status = "running"
    /\ reducer(state, TickAction).config = state.config
    /\ reducerLib(LibView(state), TickAction) = LibView(CompletedFrom(state))

\* a work session has just been completed into a long break
WorkCompletedIntoLongBreak ==
  /\ act.type = "TICK"
  /\ fromStatus = "running"
  /\ state.mode = "longBreak"
  /\ state.workSessionsCompleted = Num(1)
  /\ state.secondsLeft = Duration("longBreak", state.config)
  /\ state.announce = "Session complete. Next: Long Break"

\* C10: ResetSession, whatever the status, gives status Idle, secondsLeft the
\* duration of the current mode under the current config and the announcement
\* "Session reset", and leaves every other field as it was.
ResetSessionEffect ==
  LET expected == [state EXCEPT !.status = "idle",
                                !.secondsLeft = Duration(state.mode, state.config),
                                !.announce = "Session reset"]
  IN /\ reducer(state, ResetSessionAction) = expected
     /\ reducerLib(LibView(state), ResetSessionAction) = LibView(expected)

\* a Running break with a completed work session was reset
ResetWhileRunning ==
  /\ act.type = "RESET_SESSION"
  /\ fromStatus = "running"
  /\ state.status = "idle"
  /\ state.mode = "shortBreak"
  /\ state.workSessionsCompleted = Num(1)
  /\ state.secondsLeft = Duration(state.mode, state.config)
  /\ state.announce = "Session reset"

----------------------------------------------------------------------------
(* C4, C5: the run Start, Tick, Tick, ... from the initial state (SpecRun) *)

\* C4: in the run from the initial state (longEvery = 4) the 1st, 2nd and 3rd
\* completed work sessions are followed by ShortBreak and the 4th by
\* LongBreak; with the config unchanged, a break that follows the k-th
\* completed work session is LongBreak exactly when k mod longEvery = 0, and
\* the Tick that completes a break leads to Work.
RolloverCadence ==
  /\ state.config = initialState.config
  /\ nTicks = 1500 =>
       state.mode = "shortBreak" /\ state.workSessionsCompleted = Num(1)
  /\ nTicks = 3300 =>
       state.mode = "shortBreak" /\ state.workSessionsCompleted = Num(2)
  /\ nTicks = 5100 =>
       state.mode = "shortBreak" /\ state.workSessionsCompleted = Num(3)
  /\ nTicks = 6900 =>
       state.mode = "longBreak" /\ state.workSessionsCompleted = Num(4)
  /\ state.mode # "work" =>
       /\ state.workSessionsCompleted >= Num(1)
       /\ state.mode = IF Rem(state.workSessionsCompleted, state.config.longEvery) = 0
                       THEN "longBreak" ELSE "shortBreak"
  /\ (state.mode # "work" /\ state.status = "running" /\ state.secondsLeft = Num(1)) =>
       /\ reducer(state, TickAction).mode = "work"
       /\ reducerLib(LibView(state), TickAction).mode = "work"

\* the 4th work session of the run has just been completed
FourthWorkSessionCompleted ==
  /\ nTicks = 6900
  /\ act.type = "TICK"
  /\ state.mode = "longBreak"
  /\ state.workSessionsCompleted = Num(4)
  /\ state.announce = "Session complete. Next: Long Break"

\* C5: from the initial state Start gives Running; each of the next 1499
\* Ticks changes secondsLeft by -1 and nothing else; the 1500th Tick gives
\* ShortBreak, Running, 300 seconds, one completed session and the
\* announcement "Session complete. Next: Short Break".  In general a Tick on
\* a Running state with more than one second left only decrements, and a
\* Tick with one second left completes the session.
CountdownScenario ==
  /\ act.type = "INIT" =>
       /\ state.mode = "work" /\ state.status = "idle"
       /\ state.secondsLeft = Num(1500) /\ state.workSessionsCompleted = Num(0)
  /\ act.type = "START" => state = [initialState EXCEPT !.status = "running"]
  /\ nTicks \in 1..1499 =>
       state = [initialState EXCEPT !.status = "running",
                                    !.secondsLeft = Num(1500 - nTicks)]
  /\ nTicks = 1500 =>
       state = [initialState EXCEPT !.status = "running",
                                    !.mode = "shortBreak",
                                    !.secondsLeft = Num(300),
                                    !.workSessionsCompleted = Num(1),
                                    !.announce = "Session complete. Next: Short Break"]
  /\ (state.status = "running" /\ state.secondsLeft > Num(1)) =>
       /\ reducer(state, TickAction) = [state EXCEPT !.secondsLeft = @ - Num(1)]
       /\ reducerLib(LibView(state), TickAction) =
            [LibView(state) EXCEPT !.secondsLeft = @ - Num(1)]
  /\ (state.status = "running" /\ state.secondsLeft = Num(1)) =>
       /\ reducer(state, TickAction).mode # state.mode
       /\ reducer(state, TickAction).secondsLeft =
            Duration(reducer(state, TickAction).mode, state.config)

\* the 1500th Tick of the run has been applied
FifteenHundredthTick ==
  /\ nTicks = 1500
  /\ act.type = "TICK"
  /\ state.mode = "shortBreak"
  /\ state.secondsLeft = Num(300)

----------------------------------------------------------------------------
(* C6..C9: APPLY_CONFIG *)

IsPositiveNumber(n) == ~n.nan /\ n.val > 0

\* a minute field as C6 states it
MinutesAsClaimed(v) ==
  IF IsPositiveNumber(Number(v)) THEN Max(Num(1), Number(v).val) ELSE Num(1)

\* longEvery as C6 states it, "invalid" read as for the minute fields
EveryAsClaimed(v) ==
  IF IsPositiveNumber(Number(v)) THEN Max(Num(1), Number(v).val) ELSE Num(4)

\* longEvery with the fallback to 4 only for a non-numeric or zero field
EveryAsAmended(v) ==
  IF Number(v).nan \/ Number(v).val = 0 THEN Num(4) ELSE Max(Num(1), Number(v).val)

ExamplePayload ==
  [workMin |-> "abc", shortMin |-> "-5", longMin |-> "10", longEvery |-> "0"]

ExampleConfig ==
  [workMin |-> Num(1), shortMin |-> Num(1), longMin |-> Num(10), longEvery |-> Num(4)]

ConfigAsAmended(p) ==
  [workMin |-> MinutesAsClaimed(p.workMin),
   shortMin |-> MinutesAsClaimed(p.shortMin),
   longMin |-> MinutesAsClaimed(p.longMin),
   longEvery |-> EveryAsAmended(p.longEvery)]

\* C6 as stated: each minute field becomes max(1, n), or 1 when the field is
\* not a valid positive number; longEvery becomes max(1, n), or 4 when the
\* field is invalid (not a valid positive number).
SanitizeAsClaimed ==
  act.type = "APPLY_CONFIG" =>
    /\ state.config.workMin = MinutesAsClaimed(act.payload.workMin)
    /\ state.config.shortMin = MinutesAsClaimed(act.payload.shortMin)
    /\ state.config.longMin = MinutesAsClaimed(act.payload.longMin)
    /\ state.config.longEvery = EveryAsClaimed(act.payload.longEvery)
    /\ act.payload = ExamplePayload => state.config = ExampleConfig

\* C6 amended: the minute fields as stated; longEvery becomes 4 when the field
\* is non-numeric or zero and max(1, n) otherwise, so that a negative
\* longEvery gives 1; the example payload gives {1, 1, 10, 4}.  The
\* standalone reducer computes the same config.
SanitizeAmended ==
  act.type = "APPLY_CONFIG" =>
    /\ state.config = ConfigAsAmended(act.payload)
    /\ reducerLib(LibView(initialState), act).config = ConfigAsAmended(act.payload)
    /\ act.payload = ExamplePayload => state.config = ExampleConfig
    /\ act.payload.longEvery = "-5" => state.config.longEvery = Num(1)

\* the example payload of the claim has been applied
ExamplePayloadApplied ==
  /\ act.type = "APPLY_CONFIG"
  /\ act.payload = ExamplePayload
  /\ state.config = ExampleConfig

ConfigFields == {"workMin", "shortMin", "longMin", "longEvery"}

\* C7: in every reachable state every config field is a positive integer,
\* at least 1.
ConfigPositiveIntegers ==
  \A f \in ConfigFields :
    state.config[f] >= Num(1) /\ IsInteger(state.config[f])

\* the state C8 expects after APPLY_CONFIG(p) in state s
ApplyConfigExpected(s, p) ==
  [s EXCEPT !.config = ConfigAsAmended(p),
            !.status = "idle",
            !.secondsLeft = Duration(s.mode, ConfigAsAmended(p)),
            !.announce = "Settings applied"]

\* C8: APPLY_CONFIG from any state replaces config by the sanitised payload,
\* sets status Idle, secondsLeft to the duration of the current mode under
\* the new config and the announcement "Settings applied", and leaves mode,
\* workSessionsCompleted and soundEnabled as they were.
ApplyConfigEffect ==
  \A p \in Payloads :
    /\ reducer(state, ApplyConfigAction(p)) = ApplyConfigExpected(state, p)
    /\ reducerLib(LibView(state), ApplyConfigAction(p)) =
         LibView(ApplyConfigExpected(state, p))

\* settings were applied to a Running break: it is Idle at full length
SettingsAppliedWhileRunning ==
  /\ act.type = "APPLY_CONFIG"
  /\ fromStatus = "running"
  /\ state.status = "idle"
  /\ state.mode = "shortBreak"
  /\ state.workSessionsCompleted = Num(1)
  /\ state.config.shortMin = 3
  /\ state.secondsLeft = Num(90)
  /\ state.announce = "Settings applied"

\* C9: a state that results from APPLY_CONFIG(p) is left unchanged, config
\* and every other field, by a second APPLY_CONFIG(p), in both reducers.
ApplyConfigIdempotent ==
  act.type = "APPLY_CONFIG" =>
    /\ reducer(state, act) = state
    /\ reducer(state, act).config = state.config
    /\ reducerLib(LibView(state), act) = LibView(state)

\* a payload was applied to a non-Work session whose length it changes
SettingsAppliedToBreak ==
  /\ act.type = "APPLY_CONFIG"
  /\ state.mode = "longBreak"
  /\ state.config.longMin = 3
  /\ state.config.workMin = Num(1)
  /\ state.secondsLeft = Num(90)

----------------------------------------------------------------------------
(* C11..C13: the remaining single reducer steps *)

\* C11: Start from Idle or Paused gives Running, Pause from Running gives
\* Paused, Resume from Paused gives Running; each clears the announcement
\* and changes nothing else; Pause then Resume (or Start) is back at Running
\* with the secondsLeft the timer had when it was paused.
StartPauseResumeEffect ==
  /\ state.status \in NotRunning =>
       /\ reducer(state, StartAction) =
            [state EXCEPT !.status = "running", !.announce = ""]
       /\ reducerLib(LibView(state), StartAction) =
            [LibView(state) EXCEPT !.status = "running", !.announce = ""]
  /\ state.status = "paused" =>
       /\ reducer(state, ResumeAction) =
            [state EXCEPT !.status = "running", !.announce = ""]
       /\ reducerLib(LibView(state), ResumeAction) =
            [LibView(state) EXCEPT !.status = "running", !.announce = ""]
  /\ state.status = "running" =>
       /\ reducer(state, PauseAction) =
            [state EXCEPT !.status = "paused", !.announce = ""]
       /\ reducerLib(LibView(state), PauseAction) =
            [LibView(state) EXCEPT !.status = "paused", !.announce = ""]
       /\ reducer(reducer(state, PauseAction), ResumeAction) =
            [state EXCEPT !.announce = ""]
       /\ reducer(reducer(state, PauseAction), StartAction) =
            [state EXCEPT !.announce = ""]

\* a timer paused in mid-countdown was started again
StartedAgainAfterPause ==
  /\ act.type = "START"
  /\ fromStatus = "paused"
  /\ state.status = "running"
  /\ state.announce = ""
  /\ state.secondsLeft < Duration(state.mode, state.config)

\* C12: SetMode(m), for each of the three modes and from any state, gives
\* mode m, status Idle, secondsLeft the duration of m, the announcement
\* "Session: <label of m>", and leaves config, workSessionsCompleted and
\* soundEnabled as they were.
SetModeEffect ==
  \A m \in Modes :
    reducer(state, SetModeAction(m)) =
      [state EXCEPT !.mode = m,
                    !.status = "idle",
                    !.secondsLeft = Duration(m, state.config),
                    !.announce = "Session: " \o Label(m)]

\* the Short Break tab was pressed while a later session was running
ModeSetWhileRunning ==
  /\ act.type = "SET_MODE"
  /\ fromStatus = "running"
  /\ state.mode = "shortBreak"
  /\ state.status = "idle"
  /\ state.workSessionsCompleted = Num(1)
  /\ state.announce = "Session: Short Break"

\* C13: ToggleSound from any state flips soundEnabled, clears the
\* announcement and leaves mode, status, config, secondsLeft and
\* workSessionsCompleted as they were; two in a row restore soundEnabled.
ToggleSoundEffect ==
  /\ reducer(state, ToggleSoundAction) =
       [state EXCEPT !.soundEnabled = ~state.soundEnabled, !.announce = ""]
  /\ reducer(state, ToggleSoundAction).status = state.status
  /\ reducer(state, ToggleSoundAction).secondsLeft = state.secondsLeft
  /\ reducer(reducer(state, ToggleSoundAction), ToggleSoundAction).soundEnabled =
       state.soundEnabled

\* sound was switched back on during a running countdown
SoundBackOnWhileRunning ==
  /\ act.type = "TOGGLE_SOUND"
  /\ fromStatus = "running"
  /\ state.status = "running"
  /\ state.soundEnabled
  /\ state.workSessionsCompleted = Num(1)
  /\ state.secondsLeft < Duration(state.mode, state.config)


----------------------------------------------------------------------------
(* C16..C18: invariants of the reachable states *)

IntegerConfig(c) == \A f \in ConfigFields : IsInteger(c[f])

\* C16: with integer config values, secondsLeft is in every reachable state an
\* integer with 1 <= secondsLeft <= duration(mode, config): the countdown is
\* never seen at 0 or below, the Tick that would reach 0 rolls over to the
\* next session's full duration in the same step.
SecondsLeftInRange ==
  /\ IntegerConfig(state.config) =>
       /\ IsInteger(state.secondsLeft)
       /\ Num(1) <= state.secondsLeft
       /\ state.secondsLeft <= Duration(state.mode, state.config)
  /\ (state.status = "running" /\ state.secondsLeft = Num(1)) =>
       reducer(state, TickAction).secondsLeft =
         Duration(reducer(state, TickAction).mode, state.config)

\* with the default settings, a Tick at one second of a break rolled over to
\* a full Work session
BreakRolledOverToFullWork ==
  /\ act.type = "TICK"
  /\ fromStatus = "running"
  /\ trail = "ticks"
  /\ state.config = initialState.config
  /\ state.mode = "work"
  /\ state.workSessionsCompleted = Num(1)
  /\ state.secondsLeft = Num(1500)

\* C17: in every reachable state, status Idle implies secondsLeft =
\* duration(mode, config): an Idle timer shows the full length of its session.
IdleShowsFullDuration ==
  state.status = "idle" =>
    state.secondsLeft = Duration(state.mode, state.config)

\* a paused long break became Idle by a mode change after the settings had
\* been changed
IdleAfterSettingsAndModeChange ==
  /\ act.type = "SET_MODE"
  /\ fromStatus = "paused"
  /\ state.status = "idle"
  /\ state.mode = "longBreak"
  /\ state.config # initialState.config
  /\ state.secondsLeft = Duration("longBreak", state.config)
  /\ state.secondsLeft # Duration("work", state.config)

\* C18: workSessionsCompleted never decreases and changes only by exactly +1,
\* only on a Tick applied to a Running state in Work mode with secondsLeft 1;
\* Start, Pause, Resume, ResetSession, SetMode, ToggleSound, ApplyConfig,
\* non-completing Ticks and Ticks completing a break leave it unchanged.
CountOnlyGrowsOnWorkCompletion ==
  LET count == state.workSessionsCompleted
      kept(action) ==
        /\ reducer(state, action).workSessionsCompleted = count
        /\ reducerLib(LibView(state), action).workSessionsCompleted = count
      grown(action) ==
        /\ reducer(state, action).workSessionsCompleted = count + Num(1)
        /\ reducerLib(LibView(state), action).workSessionsCompleted = count + Num(1)
  IN /\ kept(StartAction)
     /\ kept(PauseAction)
     /\ kept(ResumeAction)
     /\ kept(ResetSessionAction)
     /\ kept(ToggleSoundAction)
     /\ \A m \in Modes : kept(SetModeAction(m))
     /\ \A p \in Payloads : kept(ApplyConfigAction(p))
     /\ IF state.status = "running" /\ state.mode = "work"
           /\ state.secondsLeft = Num(1)
        THEN grown(TickAction)
        ELSE kept(TickAction)
     /\ state.workSessionsCompleted >= Num(0)
     /\ IsInteger(state.workSessionsCompleted)

\* a reset was pressed after a work session had been counted, and the count
\* was kept
ResetKeptTheCount ==
  /\ act.type = "RESET_SESSION"
  /\ fromStatus = "running"
  /\ state.workSessionsCompleted = Num(1)
  /\ state.mode # "work"
  /\ state.status = "idle"


----------------------------------------------------------------------------
(* C15: the audio notifier *)

SessionCompleteShown(s) == startsWith(s.announce, "Session complete")

\* the step just taken was a Tick that completed a session
JustCompleted ==
  /\ act.type = "TICK"
  /\ fromStatus = "running"
  /\ state.secondsLeft = Duration(state.mode, state.config)

----------------------------------------------------------------------------
(* C14: the ticking driver *)

\* C14: the interval is set exactly while the status the effect has seen is
\* Running: once the effect has run for the current status the interval is
\* set iff status is Running, and a session completion keeps it; and a Tick
\* the interval delivers in an Idle or Paused state (scheduled while Running,
\* delivered after Pause, ResetSession, SetMode or ApplyConfig) never
\* decrements secondsLeft.
DriverTicksOnlyWhileRunning ==
  /\ timer <=> depStatus = "running"
  /\ depStatus = state.status => (timer <=> state.status = "running")
  /\ (JustCompleted /\ depStatus = "running") => (timer /\ ~ENABLED TickEffect)
  /\ (timer /\ state.status \in NotRunning) =>
       /\ reducer(state, TickAction) = state
       /\ reducerLib(LibView(state), TickAction) = LibView(state)
  /\ (act.type = "TICK" /\ fromStatus \in NotRunning) =>
       state.status = fromStatus

\* a Tick of the interval set while Running was delivered after the mode tab
\* had made the timer Idle, before the effect tore the interval down
StaleTickAfterSetMode ==
  /\ act.type = "TICK"
  /\ fromStatus = "idle"
  /\ timer
  /\ depStatus = "running"
  /\ state.status = "idle"
  /\ state.mode = "longBreak"
  /\ state.secondsLeft = Duration(state.mode, state.config)


----------------------------------------------------------------------------
(* C19: the two reducers *)

\* C19: run side by side from their initial states on the same sequence of
\* Start, Pause, Resume, ResetSession, Tick and ApplyConfig actions, the two
\* reducers agree after every step on mode, status, config, secondsLeft,
\* workSessionsCompleted and announce; the standalone reducer returns its
\* state unchanged for SetMode and ToggleSound and has no soundEnabled.
ReducersAgree ==
  /\ LibView(state) = libState
  /\ DOMAIN libState = DOMAIN state \ {"soundEnabled"}
  /\ "soundEnabled" \in DOMAIN state
  /\ reducerLib(libState, ToggleSoundAction) = libState
  /\ \A m \in Modes : reducerLib(libState, SetModeAction(m)) = libState

\* both reducers took new settings during the long break that followed the
\* first work session
BothAppliedSettingsInLongBreak ==
  /\ act.type = "APPLY_CONFIG"
  /\ libState.mode = "longBreak"
  /\ libState.workSessionsCompleted = Num(1)
  /\ libState.status = "idle"
  /\ libState.announce = "Settings applied"
  /\ libState.config # initialStateLib.config
  /\ state.mode = "longBreak"


----------------------------------------------------------------------------
(* C20: progress under fair ticking *)

\* C20: once the timer is Running and only Ticks are delivered, fairly, the
\* current session eventually completes, the mode changes at every
\* completion (Work to a break, a break to Work), Work is entered again after
\* every break, workSessionsCompleted passes every value below the bound, and
\* the timer never leaves Running and is never stuck.
FairTickingProgresses ==
  /\ [](timer => state.status = "running")
  /\ [](timer => reducer(state, TickAction) # state)
  /\ [](tickCompletes(state) =>
          /\ reducer(state, TickAction).mode # state.mode
          /\ reducer(state, TickAction).status = "running"
          /\ (state.mode = "work") # (reducer(state, TickAction).mode = "work"))
  /\ (timer /\ state.mode # "work") ~> (state.mode = "work")
  /\ \A k \in 0..(LiveSessions - 1) :
       (timer /\ state.mode = "work" /\ state.workSessionsCompleted = Num(k))
         ~> (state.mode # "work" /\ state.workSessionsCompleted = Num(k + 1))
  /\ \A k \in 0..(LiveSessions - 1) :
       (timer /\ state.workSessionsCompleted = Num(k))
         ~> (state.workSessionsCompleted = Num(k + 1))

\* with the default settings and nothing but Ticks after Start, Work was
\* entered for the third time
WorkEnteredAgainByTicksAlone ==
  /\ timer
  /\ act.type = "TICK"
  /\ state.status = "running"
  /\ state.config = initialState.config
  /\ state.mode = "work"
  /\ state.workSessionsCompleted = Num(2)
  /\ state.secondsLeft = Num(1500)

====
